---------------------------- MODULE Spec2Model ----------------------------
(***************************************************************************)
(* authboss: the remember-me module (remember/remember.go) and the         *)
(* per-request identity cache (context.go).                                *)
(*                                                                         *)
(* Strings and byte slices are sequences of byte values (0..255); a cookie *)
(* is the sequence of the ASCII codes of its characters.  An optional      *)
(* value (a context value that may be nil, a cookie that may be absent) is *)
(* a set with at most one element.                                         *)
(***************************************************************************)
EXTENDS Integers, Sequences, FiniteSets, TLC

(***************************************************************************)
(* Bounds of the model.                                                    *)
(***************************************************************************)
\* How many nonces the random source hands out in one behaviour.
MaxNonces == 3
\* How many identity-cache calls one chained request makes.
MaxCalls == 3
\* How long a pid is in the token round trip.
MaxPidLen == 3
\* How many handlers are subscribed to one event.
MaxSubs == 3

(***************************************************************************)
(* Program constants.                                                      *)
(***************************************************************************)
nNonceSize == 32

Semicolon == 59      \* ';'
PadChar == 61        \* '='

Nil == {}
Some(x) == {x}
The(s) == CHOOSE x \in s : TRUE

(***************************************************************************)
(* encoding/base64 as remember.go uses it.  URLEncoding is computed on the *)
(* bytes (RFC 4648 section 5, with padding), so that decoding what was     *)
(* encoded, and decoding what a client made up, are both computed.         *)
(***************************************************************************)
URLChar(v) ==
    IF v < 26 THEN 65 + v
    ELSE IF v < 52 THEN 71 + v
    ELSE IF v < 62 THEN v - 4
    ELSE IF v = 62 THEN 45
    ELSE 95

\* The 6-bit value of a character of the URL alphabet, -1 for any other.
URLVal(c) ==
    IF c >= 65 /\ c <= 90 THEN c - 65
    ELSE IF c >= 97 /\ c <= 122 THEN c - 71
    ELSE IF c >= 48 /\ c <= 57 THEN c + 4
    ELSE IF c = 45 THEN 62
    ELSE IF c = 95 THEN 63
    ELSE -1

\* base64.URLEncoding.EncodeToString(src)
URLEncodeToString(src) ==
    LET n == Len(src)
        At(j) == IF j <= n THEN src[j] ELSE 0
    IN  [i \in 1..(4 * ((n + 2) \div 3)) |->
            LET g == (i - 1) \div 4
                k == (i - 1) % 4
                b1 == At(3 * g + 1)
                b2 == At(3 * g + 2)
                b3 == At(3 * g + 3)
            IN  CASE k = 0 -> URLChar(b1 \div 4)
                  [] k = 1 -> URLChar((b1 % 4) * 16 + (b2 \div 16))
                  [] k = 2 -> IF 3 * g + 2 > n THEN PadChar
                              ELSE URLChar((b2 % 16) * 4 + (b3 \div 64))
                  [] OTHER -> IF 3 * g + 3 > n THEN PadChar
                              ELSE URLChar(b3 % 64)]

\* base64.URLEncoding.DecodeString(s): [err, bytes].  The input must be whole
\* quanta of four characters of the URL alphabet, the last one padded with
\* one or two '='.
URLDecodeString(s) ==
    LET n == Len(s)
        pad == IF n >= 1 /\ s[n] = PadChar
               THEN (IF n >= 2 /\ s[n - 1] = PadChar THEN 2 ELSE 1)
               ELSE 0
        Val(j) == IF j > n - pad THEN 0 ELSE URLVal(s[j])
        ok == /\ n % 4 = 0
              /\ \A j \in 1..(n - pad) : URLVal(s[j]) >= 0
    IN  IF ~ok THEN [err |-> TRUE, bytes |-> <<>>]
        ELSE [err |-> FALSE,
              bytes |-> [j \in 1..(3 * (n \div 4) - pad) |->
                  LET g == (j - 1) \div 3
                      k == (j - 1) % 3
                      v1 == Val(4 * g + 1)
                      v2 == Val(4 * g + 2)
                      v3 == Val(4 * g + 3)
                      v4 == Val(4 * g + 4)
                  IN  CASE k = 0 -> v1 * 4 + (v2 \div 16)
                        [] k = 1 -> (v2 % 16) * 16 + (v3 \div 4)
                        [] OTHER -> (v3 % 4) * 64 + v4]]

\* sha512.Sum512: a digest is known only by what was hashed (no collisions).
Sum512(b) == [sha512 |-> b]

\* base64.StdEncoding.EncodeToString of a digest; it is never decoded.
StdEncodeToString(sum) == [b64std |-> sum]

\* bytes.IndexByte(b, c): the 0-based index of the first c in b, or -1.
IndexByte(b, c) ==
    IF \E i \in 1..Len(b) : b[i] = c
    THEN (CHOOSE i \in 1..Len(b) : b[i] = c /\ \A j \in 1..(i - 1) : b[j] # c) - 1
    ELSE -1


(***************************************************************************)
(* Principals, nonces, tokens.                                             *)
(***************************************************************************)
\* The pids of the user accounts: "a" and "a;b" (a pid is an opaque string).
Pids == {<<97>>, <<97, Semicolon, 98>>}

\* The k-th output of crypto/rand: nNonceSize bytes; the first nonce starts
\* with ';', as a random byte may.
Nonce(k) == [i \in 1..nNonceSize |-> (59 * k + 7 * (i - 1)) % 256]

\* GenerateToken without the call of rand.Read: the nonce stays zero.
GenerateToken_NoNonce(pid, nonce) ==
    LET rawToken == pid \o <<Semicolon>> \o [i \in 1..nNonceSize |-> 0]
        sum == Sum512(rawToken)
    IN  [hash |-> StdEncodeToString(sum),
         token |-> URLEncodeToString(rawToken)]

\* GenerateToken's results for a pid and the bytes rand.Read filled in.
GenerateToken(pid, nonce) ==
    LET rawToken == pid \o <<Semicolon>> \o nonce
        sum == Sum512(rawToken)
    IN  [hash |-> StdEncodeToString(sum),
         token |-> URLEncodeToString(rawToken)]

\* What Authenticate makes of the remember cookie before it asks storage:
\* "nocookie", "baddecode", "noseparator", or "lookup" with the pid and hash.
ParseCookie(cookie) ==
    IF cookie = Nil THEN [stage |-> "nocookie", pid |-> <<>>, hash |-> Nil]
    ELSE LET dec == URLDecodeString(The(cookie))
             rawToken == dec.bytes
             index == IndexByte(rawToken, Semicolon)
         IN  IF dec.err THEN [stage |-> "baddecode", pid |-> <<>>, hash |-> Nil]
             ELSE IF index < 0
                  THEN [stage |-> "noseparator", pid |-> <<>>, hash |-> Nil]
             ELSE [stage |-> "lookup",
                   pid |-> SubSeq(rawToken, 1, index),
                   hash |-> Some(StdEncodeToString(Sum512(rawToken)))]

\* Cookies a client can make up: "!!!!" (not base64), base64 of "ab" (no
\* ';'), base64 of "a;x" (well formed, never issued).
ForgedCookies ==
    {<<33, 33, 33, 33>>,
     URLEncodeToString(<<97, 98>>),
     URLEncodeToString(<<97, Semicolon, 120>>)}

\* The requests in flight at once.
Reqs == {1, 2}

Users == {[pid |-> p] : p \in Pids}
GetPID(user) == user.pid

Opt(S) == {Nil} \cup {Some(x) : x \in S}

\* The values a request's context may hold under CTXKeyRM: none, the
\* booleans, and a value that is not a boolean.
RMValues == {"nil", "bool:true", "bool:false", "string:yes"}

\* What Storage.Server.Load may answer.
LoadOutcomes == {"ok", "ErrUserNotFound", "load failed"}

VARIABLES
    tokens,     \* the storage server's remember tokens: a set of <<pid, hash>>
    nonces,     \* how many nonces crypto/rand has produced
    issued,     \* the tokens written to a remember cookie so far
    pc,         \* per request: "idle", "use" (before UseRememberToken),
                \*   "add" (before GenerateToken and AddRememberToken)
    inflight,   \* per request: the remember cookie of the request
    last,       \* the handler call that returned last: its request, what it
                \*   returned, what it wrote to the response, what it called
    used,       \* the <<pid, hash>> a UseRememberToken call has consumed
    twice,      \* the <<pid, hash>> consumed again after being consumed
    chain,      \* a request handed from one identity-cache call to the next:
                \*   as it arrived (rq0), as the last call rebound it (rq), and
                \*   what each call returned and touched (calls)
    trip,       \* a token's round trip: the pid and hash it was issued for,
                \*   the cookie, and the pid and hash Authenticate asks for
    dispatch,   \* the event dispatcher: the After handlers subscribed to
                \*   each event, and the dispatch in progress
    raced       \* the requests in Authenticate past their UseRememberToken
                \*   since when a password reset has deleted the tokens of
                \*   their cookie's pid

protoVars == <<tokens, nonces, issued, pc, inflight, last, used, twice>>

(***************************************************************************)
(* The storage server's remember-token capabilities and the client state   *)
(* writers, as the module's contract describes them.                       *)
(***************************************************************************)
\* storer.UseRememberToken(pid, hash): one-shot, atomic.
UseRememberToken(store, pid, hash) ==
    IF <<pid, hash>> \in store
    THEN [err |-> "nil", store |-> store \ {<<pid, hash>>}]
    ELSE [err |-> "ErrTokenNotFound", store |-> store]

\* storer.AddRememberToken(pid, hash)
AddRememberToken(store, pid, hash) == store \cup {<<pid, hash>>}

\* storer.DelRememberTokens(pid)
DelRememberTokens(store, pid) == {t \in store : t[1] # pid}

\* Storage.Server.Load(ctx, pid), given what the storage answers.
Load(pid, outcome) ==
    IF outcome = "ok" THEN [user |-> Some([pid |-> pid]), err |-> "nil"]
    ELSE [user |-> Nil, err |-> outcome]

TokensOf(store, pid) == {t[2] : t \in {u \in store : u[1] = pid}}

\* A response writer: the cookie and session operations put on it, in order.
NewWriter == [cookieOps |-> <<>>, sessionPuts |-> <<>>]
DelCookie(w) ==
    [w EXCEPT !.cookieOps = Append(@, [op |-> "del", value |-> Nil])]
PutCookie(w, value) ==
    [w EXCEPT !.cookieOps = Append(@, [op |-> "put", value |-> Some(value)])]
PutSession(w, key, value) ==
    [w EXCEPT !.sessionPuts = Append(@, [key |-> key, value |-> value])]

\* GetSession(r, SessionKey): the value, "" when the session has none.
GetSession(rq) == [value |-> rq.sessPID, ok |-> rq.sessPID # <<>>]

TrueString == <<116, 114, 117, 101>>    \* "true"

StorerCall(fn, pid, hash) == [fn |-> fn, pid |-> pid, hash |-> hash]
LogLine(msg, pid, err) == [msg |-> msg, pid |-> pid, err |-> err]

(***************************************************************************)
(* context.go: resolving the current user of a request.  A request is a    *)
(* record with the context values ctxPID and ctxUser (optional), the pid   *)
(* in its session (sessPID, "" when none) and, for the remember module,    *)
(* its remember cookie and the context value rm.                           *)
(***************************************************************************)
\* The session read before the context.
CurrentUserID_SessionFirst(rq) ==
    IF GetSession(rq).ok
    THEN [pid |-> GetSession(rq).value, err |-> "nil", reads |-> 1]
    ELSE IF rq.ctxPID # Nil
    THEN [pid |-> The(rq.ctxPID), err |-> "nil", reads |-> 1]
    ELSE [pid |-> <<>>, err |-> "nil", reads |-> 1]

CurrentUserID(rq) ==
    IF rq.ctxPID # Nil
    THEN [pid |-> The(rq.ctxPID), err |-> "nil", reads |-> 0]
    ELSE [pid |-> GetSession(rq).value, err |-> "nil", reads |-> 1]

\* a.currentUser(ctx, pid)
currentUser(pid, outcome) == Load(pid, outcome)

\* Load called whether or not there is a pid.
CurrentUser_LoadsEmptyPid(rq, outcome) ==
    IF rq.ctxUser # Nil
    THEN [user |-> rq.ctxUser, err |-> "nil", loads |-> <<>>, reads |-> 0]
    ELSE LET id == CurrentUserID(rq)
             got == currentUser(id.pid, outcome)
         IN  [user |-> got.user, err |-> got.err, loads |-> <<id.pid>>,
              reads |-> id.reads]

\* The cached user not looked at.
CurrentUser_IgnoresCached(rq, outcome) ==
    LET id == CurrentUserID(rq)
    IN  IF Len(id.pid) = 0
        THEN [user |-> Nil, err |-> "ErrUserNotFound", loads |-> <<>>,
              reads |-> id.reads]
        ELSE LET got == currentUser(id.pid, outcome)
             IN  [user |-> got.user, err |-> got.err, loads |-> <<id.pid>>,
                  reads |-> id.reads]

CurrentUser(rq, outcome) ==
    IF rq.ctxUser # Nil
    THEN [user |-> rq.ctxUser, err |-> "nil", loads |-> <<>>, reads |-> 0]
    ELSE LET id == CurrentUserID(rq)
         IN  IF id.err # "nil"
             THEN [user |-> Nil, err |-> id.err, loads |-> <<>>, reads |-> id.reads]
             ELSE IF Len(id.pid) = 0
             THEN [user |-> Nil, err |-> "ErrUserNotFound", loads |-> <<>>,
                   reads |-> id.reads]
             ELSE LET got == currentUser(id.pid, outcome)
                  IN  [user |-> got.user, err |-> got.err, loads |-> <<id.pid>>,
                       reads |-> id.reads]

\* panic |-> "nil" when the call returns.
CurrentUserP(rq, outcome) ==
    LET got == CurrentUser(rq, outcome)
    IN  IF got.err # "nil"
        THEN [user |-> Nil, panic |-> got.err, loads |-> got.loads]
        ELSE IF got.user = Nil
        THEN [user |-> Nil, panic |-> "ErrUserNotFound", loads |-> got.loads]
        ELSE [user |-> got.user, panic |-> "nil", loads |-> got.loads]

\* LoadCurrentUserID with an empty pid returned as ErrUserNotFound, as
\* CurrentUser does.
LoadCurrentUserID_EmptyIsError(rq) ==
    IF rq.ctxPID # Nil
    THEN [pid |-> The(rq.ctxPID), err |-> "nil", rq |-> rq, reads |-> 0]
    ELSE LET id == CurrentUserID(rq)
         IN  IF id.err # "nil"
             THEN [pid |-> <<>>, err |-> id.err, rq |-> rq, reads |-> id.reads]
             ELSE IF Len(id.pid) = 0
             THEN [pid |-> <<>>, err |-> "ErrUserNotFound", rq |-> rq, reads |-> id.reads]
             ELSE [pid |-> id.pid, err |-> "nil",
                   rq |-> [rq EXCEPT !.ctxPID = Some(id.pid)], reads |-> id.reads]

\* LoadCurrentUserID (lines 93-111): rq is the request *r points to when
\* the call returns.
LoadCurrentUserID(rq) ==
    IF rq.ctxPID # Nil
    THEN [pid |-> The(rq.ctxPID), err |-> "nil", rq |-> rq, reads |-> 0]
    ELSE LET id == CurrentUserID(rq)
         IN  IF id.err # "nil"
             THEN [pid |-> <<>>, err |-> id.err, rq |-> rq, reads |-> id.reads]
             ELSE IF Len(id.pid) = 0
             THEN [pid |-> <<>>, err |-> "nil", rq |-> rq, reads |-> id.reads]
             ELSE [pid |-> id.pid, err |-> "nil",
                   rq |-> [rq EXCEPT !.ctxPID = Some(id.pid)], reads |-> id.reads]

\* LoadCurrentUser that returns the loaded user without putting it in the
\* context.
LoadCurrentUser_NoRebind(rq, outcome) ==
    IF rq.ctxUser # Nil
    THEN [user |-> rq.ctxUser, err |-> "nil", rq |-> rq, loads |-> <<>>, reads |-> 0]
    ELSE LET id == LoadCurrentUserID(rq)
         IN  IF id.err # "nil"
             THEN [user |-> Nil, err |-> id.err, rq |-> id.rq, loads |-> <<>>,
                   reads |-> id.reads]
             ELSE IF Len(id.pid) = 0
             THEN [user |-> Nil, err |-> "nil", rq |-> id.rq, loads |-> <<>>,
                   reads |-> id.reads]
             ELSE LET got == currentUser(id.pid, outcome)
                  IN  [user |-> got.user, err |-> got.err, rq |-> id.rq,
                       loads |-> <<id.pid>>, reads |-> id.reads]

\* LoadCurrentUser (lines 129-152)
LoadCurrentUser(rq, outcome) ==
    IF rq.ctxUser # Nil
    THEN [user |-> rq.ctxUser, err |-> "nil", rq |-> rq, loads |-> <<>>, reads |-> 0]
    ELSE LET id == LoadCurrentUserID(rq)
         IN  IF id.err # "nil"
             THEN [user |-> Nil, err |-> id.err, rq |-> id.rq, loads |-> <<>>,
                   reads |-> id.reads]
             ELSE IF Len(id.pid) = 0
             THEN [user |-> Nil, err |-> "nil", rq |-> id.rq, loads |-> <<>>,
                   reads |-> id.reads]
             ELSE LET got == currentUser(id.pid, outcome)
                  IN  IF got.err # "nil"
                      THEN [user |-> Nil, err |-> got.err, rq |-> id.rq,
                            loads |-> <<id.pid>>, reads |-> id.reads]
                      ELSE [user |-> got.user, err |-> "nil",
                            rq |-> [id.rq EXCEPT !.ctxUser = got.user],
                            loads |-> <<id.pid>>, reads |-> id.reads]

\* CurrentUserIDP (lines 45-54)
CurrentUserIDP(rq) ==
    LET id == CurrentUserID(rq)
    IN  IF id.err # "nil"
        THEN [pid |-> <<>>, panic |-> id.err, reads |-> id.reads]
        ELSE IF Len(id.pid) = 0
        THEN [pid |-> <<>>, panic |-> "ErrUserNotFound", reads |-> id.reads]
        ELSE [pid |-> id.pid, panic |-> "nil", reads |-> id.reads]

\* LoadCurrentUserIDP (lines 114-123)
LoadCurrentUserIDP(rq) ==
    LET id == LoadCurrentUserID(rq)
    IN  IF id.err # "nil"
        THEN [pid |-> <<>>, panic |-> id.err, rq |-> id.rq, reads |-> id.reads]
        ELSE IF Len(id.pid) = 0
        THEN [pid |-> <<>>, panic |-> "ErrUserNotFound", rq |-> id.rq,
              reads |-> id.reads]
        ELSE [pid |-> id.pid, panic |-> "nil", rq |-> id.rq, reads |-> id.reads]

\* LoadCurrentUserP returning a nil user instead of panicking.
LoadCurrentUserP_NilUserOk(rq, outcome) ==
    LET got == LoadCurrentUser(rq, outcome)
    IN  IF got.err # "nil"
        THEN [user |-> Nil, panic |-> got.err, rq |-> got.rq, loads |-> got.loads,
              reads |-> got.reads]
        ELSE [user |-> got.user, panic |-> "nil", rq |-> got.rq, loads |-> got.loads,
              reads |-> got.reads]

\* LoadCurrentUserP (lines 156-165)
LoadCurrentUserP(rq, outcome) ==
    LET got == LoadCurrentUser(rq, outcome)
    IN  IF got.err # "nil"
        THEN [user |-> Nil, panic |-> got.err, rq |-> got.rq, loads |-> got.loads,
              reads |-> got.reads]
        ELSE IF got.user = Nil
        THEN [user |-> Nil, panic |-> "ErrUserNotFound", rq |-> got.rq,
              loads |-> got.loads, reads |-> got.reads]
        ELSE [user |-> got.user, panic |-> "nil", rq |-> got.rq, loads |-> got.loads,
              reads |-> got.reads]

(***************************************************************************)
(* remember.go                                                             *)
(***************************************************************************)
\* What a handler call leaves behind when it returns: its request, the
\* stage it returned from, the fault its collaborators had in its last step,
\* what it returned, what it put on the response, the calls it made, and
\* the stored tokens before its last step.
Returned(op, from, fault, rq, handledIn, ret, w, events, calls, logs, pre) ==
    [op |-> op, from |-> from, fault |-> fault,
     cookie |-> rq.cookie, ctxPID |-> rq.ctxPID, ctxUser |-> rq.ctxUser,
     sessPID |-> rq.sessPID, rm |-> rq.rm, handledIn |-> handledIn,
     panic |-> ret.panic, handled |-> ret.handled, err |-> ret.err,
     cookieOps |-> w.cookieOps, sessionPuts |-> w.sessionPuts,
     events |-> events, calls |-> calls, logs |-> logs, pre |-> pre]

NoRequest ==
    [cookie |-> Nil, ctxPID |-> Nil, ctxUser |-> Nil, sessPID |-> <<>>,
     rm |-> "nil"]

Ret(handled, err) == [panic |-> "nil", handled |-> handled, err |-> err]
Panic(err) == [panic |-> err, handled |-> FALSE, err |-> "nil"]

NoCall ==
    Returned("none", "none", "none", NoRequest, FALSE, Ret(FALSE, "nil"), NewWriter,
             <<>>, <<>>, <<>>, {})

\* The flag taken as set whenever it is present.
RememberWanted_AnyValue(rm) == rm # "nil"

\* RememberAfterAuth, lines 47-52: whether the request asks to be remembered.
RememberWanted(rm) ==
    IF rm = "nil" THEN FALSE
    ELSE IF rm = "bool:false" THEN FALSE
    ELSE TRUE

\* The gate with || for &&.
MiddlewareGate_Or(rq) == rq.ctxPID = Nil \/ rq.ctxUser = Nil

\* Middleware, line 119: whether the request is still anonymous.
MiddlewareGate(rq) == rq.ctxPID = Nil /\ rq.ctxUser = Nil

\* errors.Wrap(err, msg), used when err is not nil.
Wrap(err, msg) == msg \o ": " \o err

\* GenerateToken, lines 215-217: the error for what rand.Read returned.
NonceError(err) ==
    IF err # "nil" THEN Wrap(err, "failed to create remember me nonce") ELSE "nil"

\* The switch without its not-found case.
UseOutcome_NotFoundOk(err) ==
    IF err # "nil" /\ err # "ErrTokenNotFound" THEN "error" ELSE "ok"

\* The switch with not-found returned like any other error.
UseOutcome_NotFoundIsError(err) ==
    IF err # "nil" THEN "error" ELSE "ok"

\* Authenticate, lines 164-171: what the switch makes of UseRememberToken's
\* error.
UseOutcome(err) ==
    IF err = "ErrTokenNotFound" THEN "notfound"
    ELSE IF err # "nil" THEN "error"
    ELSE "ok"

\* AddRememberToken's error dropped.
SaveError_Ignored(err) == "nil"

\* Authenticate, lines 178-180: the error for what AddRememberToken returned.
SaveError(err) ==
    IF err # "nil" THEN Wrap(err, "failed to save me token") ELSE "nil"

\* The new cookie written first and the cookie deleted after it.
AuthenticatedWrites_PutThenDel(w, pid, token) ==
    DelCookie(PutCookie(PutSession(PutSession(w, "SessionKey", pid),
                                   "SessionHalfAuthKey", TrueString),
                        token))

\* The new token put in the session in place of the pid.
AuthenticatedWrites_TokenInSession(w, pid, token) ==
    PutCookie(DelCookie(PutSession(PutSession(w, "SessionKey", token),
                                   "SessionHalfAuthKey", TrueString)),
              token)

\* Authenticate, lines 182-185: what a successful call writes.
AuthenticatedWrites(w, pid, token) ==
    PutCookie(DelCookie(PutSession(PutSession(w, "SessionKey", pid),
                                   "SessionHalfAuthKey", TrueString)),
              token)

\* Middleware, lines 119-126: Authenticate unless the gate is closed, an
\* error of Authenticate logged, then next.
MiddlewareReturn(from, fault, rq, err, w, calls, logs, pre) ==
    Returned("Middleware", from, fault, rq, FALSE, Ret(FALSE, err), w,
             IF from = "gate" THEN <<"next">> ELSE <<"Authenticate", "next">>,
             calls,
             IF err # "nil"
             THEN Append(logs, LogLine("failed to authenticate user via remember me: %+v",
                                       Nil, err))
             ELSE logs,
             pre)

Complete(r, rec) ==
    /\ last' = rec
    /\ pc' = [pc EXCEPT ![r] = "idle"]
    /\ inflight' = [inflight EXCEPT ![r] = Nil]

\* The context values a request can enter Middleware with: <<pid, user>>.
GateContexts ==
    {<<cp, cu>> : cp \in Opt({<<97>>}), cu \in Opt({[pid |-> <<97>>]})}

MiddlewareRequest(ck, cx) ==
    [cookie |-> ck, ctxPID |-> cx[1], ctxUser |-> cx[2], sessPID |-> <<>>,
     rm |-> "nil"]

\* The remember cookies a request can carry: none, one a client made up, one
\* that was issued.
Cookies == Opt(ForgedCookies \cup issued)

\* A request enters Middleware; Authenticate runs up to its storage call
\* (lines 116-160).
MiddlewareEnter(r, ck, cx) ==
    /\ last.op = "none"
    /\ pc[r] = "idle"
    /\ LET rq == MiddlewareRequest(ck, cx)
           parsed == ParseCookie(ck)
       IN  IF ~MiddlewareGate(rq)
           THEN Complete(r, MiddlewareReturn("gate", "none", rq, "nil", NewWriter, <<>>, <<>>, tokens))
           ELSE CASE parsed.stage = "nocookie" ->
                       Complete(r, MiddlewareReturn("enter", "none", rq, "nil", NewWriter, <<>>, <<>>, tokens))
                  [] parsed.stage = "baddecode" ->
                       Complete(r, MiddlewareReturn("enter", "none", rq, "nil", DelCookie(NewWriter), <<>>,
                           <<LogLine("failed to decode remember me cookie, deleting cookie", Nil, "nil")>>,
                           tokens))
                  [] parsed.stage = "noseparator" ->
                       Complete(r, MiddlewareReturn("enter", "none", rq, "nil", DelCookie(NewWriter), <<>>,
                           <<LogLine("failed to decode remember me token, deleting cookie", Nil, "nil")>>,
                           tokens))
                  [] OTHER ->
                       /\ pc' = [pc EXCEPT ![r] = "use"]
                       /\ inflight' = [inflight EXCEPT ![r] = ck]
                       /\ last' = last
    /\ raced' = IF pc'[r] = "idle" THEN raced \ {r} ELSE raced
    /\ UNCHANGED <<tokens, nonces, issued, used, twice, chain, trip, dispatch>>

\* Authenticate, lines 162-171: the storage consumes the token, or does not.
AuthenticateUse(r, fault) ==
    /\ last.op = "none"
    /\ pc[r] = "use"
    /\ LET rq == MiddlewareRequest(inflight[r], <<Nil, Nil>>)
           parsed == ParseCookie(inflight[r])
           pid == parsed.pid
           hash == The(parsed.hash)
           res == IF fault = "use" THEN [err |-> "use failed", store |-> tokens]
                  ELSE UseRememberToken(tokens, pid, hash)
           calls == <<StorerCall("UseRememberToken", pid, Some(hash))>>
       IN  CASE UseOutcome(res.err) = "notfound" ->
                   /\ Complete(r, MiddlewareReturn("use", "none", rq, "nil", DelCookie(NewWriter), calls,
                         <<LogLine("remember me cookie had a token that was not in storage, deleting cookie",
                                   Nil, "nil")>>, tokens))
                   /\ tokens' = res.store
                   /\ UNCHANGED <<used, twice>>
             [] UseOutcome(res.err) = "error" ->
                   /\ Complete(r, MiddlewareReturn("use", fault, rq, res.err, NewWriter, calls, <<>>, tokens))
                   /\ tokens' = res.store
                   /\ UNCHANGED <<used, twice>>
             [] OTHER ->
                   /\ pc' = [pc EXCEPT ![r] = "add"]
                   /\ tokens' = res.store
                   /\ used' = used \cup {<<pid, hash>>}
                   /\ twice' = IF <<pid, hash>> \in used THEN twice \cup {<<pid, hash>>}
                               ELSE twice
                   /\ UNCHANGED <<inflight, last>>
    /\ raced' = IF pc'[r] = "idle" THEN raced \ {r} ELSE raced
    /\ UNCHANGED <<nonces, issued, chain, trip, dispatch>>

\* Authenticate, lines 173-187: the replacement token, then the session and
\* the new cookie; Middleware then calls next.
AuthenticateRotate(r, fault) ==
    /\ last.op = "none"
    /\ pc[r] = "add"
    /\ LET rq == MiddlewareRequest(inflight[r], <<Nil, Nil>>)
           parsed == ParseCookie(inflight[r])
           pid == parsed.pid
           used1 == <<StorerCall("UseRememberToken", pid, parsed.hash)>>
           genErr == NonceError(IF fault = "rand" THEN "rand failed" ELSE "nil")
       IN  IF genErr # "nil"
           THEN /\ Complete(r, MiddlewareReturn("add", fault, rq, genErr,
                                                NewWriter, used1, <<>>, tokens))
                /\ UNCHANGED <<tokens, nonces, issued>>
           ELSE /\ nonces < MaxNonces
                /\ nonces' = nonces + 1
                /\ LET gen == GenerateToken(pid, Nonce(nonces + 1))
                       calls == Append(used1, StorerCall("AddRememberToken", pid, Some(gen.hash)))
                       saveErr == SaveError(IF fault = "add" THEN "add failed" ELSE "nil")
                   IN  /\ tokens' = IF fault = "add" THEN tokens
                                    ELSE AddRememberToken(tokens, pid, gen.hash)
                       /\ IF saveErr # "nil"
                          THEN /\ Complete(r, MiddlewareReturn("add", fault, rq, saveErr,
                                                               NewWriter, calls, <<>>, tokens))
                               /\ issued' = issued
                          ELSE /\ Complete(r, MiddlewareReturn("add", fault, rq, "nil",
                                      AuthenticatedWrites(NewWriter, pid, gen.token),
                                      calls, <<>>, tokens))
                               /\ issued' = issued \cup {gen.token}
    /\ raced' = IF pc'[r] = "idle" THEN raced \ {r} ELSE raced
    /\ UNCHANGED <<used, twice, chain, trip, dispatch>>

\* The identities a request can carry: <<ctxPID, ctxUser, sessPID>>: none, a
\* pid in the session only, a cached pid over another session pid, a cached
\* user over another cached pid.
Identities ==
    {<<Nil, Nil, <<>> >>}
    \cup {<<Nil, Nil, p>> : p \in Pids}
    \cup {<<Some(<<97>>), Nil, <<97, Semicolon, 98>> >>,
          <<Some(<<97>>), Some([pid |-> <<97, Semicolon, 98>>]), <<97>> >>}

\* The requests the event handlers are called with.
HookRequests ==
    {[cookie |-> Nil, ctxPID |-> id[1], ctxUser |-> id[2], sessPID |-> id[3],
      rm |-> rm] : id \in Identities, rm \in RMValues}

\* The requests of a signed-in user who asked to be remembered.
FlowRequests ==
    {rq \in HookRequests : rq.ctxPID = Nil /\ rq.sessPID # <<>> /\ rq.rm = "bool:true"}

\* What the collaborators do during one handler call: what Load answers and
\* which of the later calls fails (at most one fault a call).
HookEnvs ==
    {<<o, f>> \in LoadOutcomes \X {"none", "rand", "add", "del"} :
        o = "ok" \/ f = "none"}

\* The fault of a call that ended resolving the user: Load's answer, when
\* Load was called.
LoadFault(loads, env) == IF loads = <<>> THEN "none" ELSE env[1]

LoadCalls(loads) == [i \in 1..Len(loads) |-> StorerCall("Load", loads[i], Nil)]

\* RememberAfterAuth (lines 46-68), called after EventAuth.
RememberAfterAuth(rq, handled, env) ==
    /\ last.op = "none"
    /\ IF ~RememberWanted(rq.rm)
       THEN /\ last' = Returned("RememberAfterAuth", "flag", "none", rq, handled, Ret(FALSE, "nil"),
                                NewWriter, <<>>, <<>>, <<>>, tokens)
            /\ UNCHANGED <<tokens, nonces, issued>>
       ELSE LET cur == CurrentUserP(rq, env[1])
                loaded == LoadCalls(cur.loads)
            IN  IF cur.panic # "nil"
                THEN /\ last' = Returned("RememberAfterAuth", "user", LoadFault(cur.loads, env), rq, handled, Panic(cur.panic),
                                         NewWriter, <<>>, loaded, <<>>, tokens)
                     /\ UNCHANGED <<tokens, nonces, issued>>
                ELSE IF env[2] = "rand"
                THEN /\ last' = Returned("RememberAfterAuth", "rand", "rand", rq, handled,
                                         Ret(FALSE, NonceError("rand failed")),
                                         NewWriter, <<>>, loaded, <<>>, tokens)
                     /\ UNCHANGED <<tokens, nonces, issued>>
                ELSE /\ nonces < MaxNonces
                     /\ nonces' = nonces + 1
                     /\ LET pid == GetPID(The(cur.user))
                            gen == GenerateToken(pid, Nonce(nonces + 1))
                            calls == Append(loaded, StorerCall("AddRememberToken", pid, Some(gen.hash)))
                        IN  IF env[2] = "add"
                            THEN /\ last' = Returned("RememberAfterAuth", "add", "add", rq, handled,
                                                     Ret(FALSE, "add failed"),
                                                     NewWriter, <<>>, calls, <<>>, tokens)
                                 /\ UNCHANGED <<tokens, issued>>
                            ELSE /\ tokens' = AddRememberToken(tokens, pid, gen.hash)
                                 /\ issued' = issued \cup {gen.token}
                                 /\ last' = Returned("RememberAfterAuth", "end", "none", rq, handled,
                                                     Ret(FALSE, "nil"),
                                                     PutCookie(NewWriter, gen.token),
                                                     <<>>, calls, <<>>, tokens)
    /\ UNCHANGED <<pc, inflight, used, twice, chain, trip, dispatch, raced>>

\* AfterPasswordReset (lines 192-207), called after EventPasswordReset.
AfterPasswordReset(rq, handled, env) ==
    /\ last.op = "none"
    /\ LET cur == CurrentUser(rq, env[1])
           loaded == LoadCalls(cur.loads)
       IN  IF cur.err # "nil"
           THEN /\ last' = Returned("AfterPasswordReset", "user", LoadFault(cur.loads, env), rq, handled, Ret(FALSE, cur.err),
                                    NewWriter, <<>>, loaded, <<>>, tokens)
                /\ tokens' = tokens
           ELSE LET pid == GetPID(The(cur.user))
                    calls == Append(loaded, StorerCall("DelRememberTokens", pid, Nil))
                    logs == <<LogLine("deleting tokens and rm cookies for user %s due to password reset",
                                      Some(pid), "nil")>>
                IN  /\ last' = Returned("AfterPasswordReset", "end",
                                        IF env[2] = "del" THEN "del" ELSE "none", rq, handled,
                                        Ret(FALSE, IF env[2] = "del" THEN "del failed" ELSE "nil"),
                                        DelCookie(NewWriter), <<>>, calls, logs, tokens)
                    /\ tokens' = IF env[2] = "del" THEN tokens
                                 ELSE DelRememberTokens(tokens, pid)
    /\ raced' =
          LET cur == CurrentUser(rq, env[1])
          IN  IF cur.err = "nil" /\ env[2] # "del"
              THEN raced \cup {r \in Reqs :
                                  /\ pc[r] = "add"
                                  /\ ParseCookie(inflight[r]).pid = GetPID(The(cur.user))}
              ELSE raced
    /\ UNCHANGED <<nonces, issued, pc, inflight, used, twice, chain, trip, dispatch>>

\* The caller takes what the call returned.
Respond ==
    /\ last.op # "none"
    /\ last' = NoCall
    /\ UNCHANGED <<tokens, nonces, issued, pc, inflight, used, twice, chain, trip, dispatch, raced>>

\* The lifecycle events the remember module subscribes to.
EventNames == {"EventAuth", "EventPasswordReset"}

Idle == [event |-> "none", at |-> 0, ran |-> <<>>, handled |-> FALSE, err |-> "nil"]

NoDispatch ==
    [after |-> [e \in EventNames |-> <<>>], inited |-> FALSE, fire |-> Idle]

\* Events.After(event, handler): the handler is appended to the event's list.
After(subs, e, h) == [subs EXCEPT ![e] = Append(@, h)]

\* Both handlers subscribed to EventAuth.
RememberInit_BothOnAuth(subs) ==
    After(After(subs, "EventAuth", "RememberAfterAuth"),
          "EventAuth", "AfterPasswordReset")

\* Remember.Init (lines 34-43): the module's subscriptions.
RememberInit(subs) ==
    After(After(subs, "EventAuth", "RememberAfterAuth"),
          "EventPasswordReset", "AfterPasswordReset")

\* The handlers of other modules, and those of the remember module.
OtherHandlers == {"A", "B"}
RememberHandlers == {"RememberAfterAuth", "AfterPasswordReset"}

\* The dispatch after the handler h, called with the handled flag so far,
\* returned (handled, err): an error ends the dispatch, a handled is kept.
Called(fire, h, handled, err) ==
    [fire EXCEPT !.at = @ + 1,
                 !.ran = Append(@, [h |-> h, handledIn |-> fire.handled,
                                    handled |-> handled, err |-> err]),
                 !.handled = IF err # "nil" THEN FALSE ELSE (@ \/ handled),
                 !.err = err]

\* Another module subscribes a handler.
Subscribe(e, h) ==
    /\ dispatch.fire.event = "none"
    /\ Len(dispatch.after[e]) < MaxSubs
    /\ dispatch' = [dispatch EXCEPT !.after = After(@, e, h)]
    /\ UNCHANGED <<protoVars, chain, trip, raced>>

\* The remember module is initialised.
InitModule ==
    /\ dispatch.fire.event = "none"
    /\ ~dispatch.inited
    /\ \A e \in EventNames : Len(dispatch.after[e]) < MaxSubs
    /\ dispatch' = [dispatch EXCEPT !.after = RememberInit(@), !.inited = TRUE]
    /\ UNCHANGED <<protoVars, chain, trip, raced>>

\* An event is fired at its After phase.
FireAfter(e) ==
    /\ dispatch.fire.event = "none"
    /\ dispatch' = [dispatch EXCEPT !.fire = [Idle EXCEPT !.event = e, !.at = 1]]
    /\ UNCHANGED <<protoVars, chain, trip, raced>>

\* The dispatch calls the next handler; the remember module's handlers
\* return handled = false (lines 49-67, 195-206).
CallHandler(handled, err) ==
    /\ dispatch.fire.event # "none"
    /\ dispatch.fire.err = "nil"
    /\ dispatch.fire.at <= Len(dispatch.after[dispatch.fire.event])
    /\ LET h == dispatch.after[dispatch.fire.event][dispatch.fire.at]
       IN  /\ h \in RememberHandlers => ~handled
           /\ dispatch' = [dispatch EXCEPT !.fire = Called(@, h, handled, err)]
    /\ UNCHANGED <<protoVars, chain, trip, raced>>

\* The dispatch returns: every handler ran, or one returned an error.
ReturnFire ==
    /\ dispatch.fire.event # "none"
    /\ \/ dispatch.fire.err # "nil"
       \/ dispatch.fire.at > Len(dispatch.after[dispatch.fire.event])
    /\ dispatch' = [dispatch EXCEPT !.fire = Idle]
    /\ UNCHANGED <<protoVars, chain, trip, raced>>

\* The requests the identity cache is called with.
CacheRequests ==
    {[cookie |-> Nil, ctxPID |-> cp, ctxUser |-> cu, sessPID |-> sp, rm |-> "nil"] :
        cp \in Opt({<<97>>}), cu \in Opt({[pid |-> <<97, Semicolon, 98>>]}),
        sp \in {<<>>} \cup Pids}

NoChain == [rq0 |-> NoRequest, rq |-> NoRequest, calls |-> <<>>, open |-> FALSE]

\* answer: what Storage.Server.Load answered, "none" when it was not called.
\* panic: what the call panicked with, "nil" when it returned.
CacheCall(fn, user, pid, err, loads, reads, answer, panic) ==
    [fn |-> fn, user |-> user, pid |-> pid, err |-> err, loads |-> loads,
     reads |-> reads, answer |-> answer, panic |-> panic]

\* A request arrives.
NewRequest(rq) ==
    /\ chain' = [rq0 |-> rq, rq |-> rq, calls |-> <<>>, open |-> TRUE]
    /\ UNCHANGED <<protoVars, trip, dispatch, raced>>

\* A handler of the request calls LoadCurrentUser(w, &r).
CallLoadCurrentUser(outcome) ==
    /\ chain.open
    /\ Len(chain.calls) < MaxCalls
    /\ LET got == LoadCurrentUser(chain.rq, outcome)
       IN  chain' = [chain EXCEPT
                        !.rq = got.rq,
                        !.calls = Append(@, CacheCall("LoadCurrentUser", got.user,
                                     <<>>, got.err, got.loads, got.reads,
                                     IF got.loads = <<>> THEN "none" ELSE outcome,
                                     "nil"))]
    /\ UNCHANGED <<protoVars, trip, dispatch, raced>>

\* A handler of the request calls LoadCurrentUserID(w, &r).
CallLoadCurrentUserID ==
    /\ chain.open
    /\ Len(chain.calls) < MaxCalls
    /\ LET got == LoadCurrentUserID(chain.rq)
       IN  chain' = [chain EXCEPT
                        !.rq = got.rq,
                        !.calls = Append(@, CacheCall("LoadCurrentUserID", Nil,
                                     got.pid, got.err, <<>>, got.reads, "none",
                                     "nil"))]
    /\ UNCHANGED <<protoVars, trip, dispatch, raced>>

\* A handler of the request calls CurrentUserID(w, r).
CallCurrentUserID ==
    /\ chain.open
    /\ Len(chain.calls) < MaxCalls
    /\ LET got == CurrentUserID(chain.rq)
       IN  chain' = [chain EXCEPT
                        !.calls = Append(@, CacheCall("CurrentUserID", Nil,
                                     got.pid, got.err, <<>>, got.reads, "none",
                                     "nil"))]
    /\ UNCHANGED <<protoVars, trip, dispatch, raced>>

\* A handler of the request calls CurrentUser(w, r).
CallCurrentUser(outcome) ==
    /\ chain.open
    /\ Len(chain.calls) < MaxCalls
    /\ LET got == CurrentUser(chain.rq, outcome)
       IN  chain' = [chain EXCEPT
                        !.calls = Append(@, CacheCall("CurrentUser", got.user,
                                     <<>>, got.err, got.loads, got.reads,
                                     IF got.loads = <<>> THEN "none" ELSE outcome,
                                     "nil"))]
    /\ UNCHANGED <<protoVars, trip, dispatch, raced>>

\* The chain after a call that may have rebound the request; a panic ends
\* the request.
Chained(rq, call) ==
    [chain EXCEPT !.rq = rq, !.calls = Append(@, call),
                  !.open = (call.panic = "nil")]

\* A handler of the request calls CurrentUserIDP(w, r).
CallCurrentUserIDP ==
    /\ chain.open
    /\ Len(chain.calls) < MaxCalls
    /\ LET got == CurrentUserIDP(chain.rq)
       IN  chain' = Chained(chain.rq, CacheCall("CurrentUserIDP", Nil, got.pid, "nil",
                                               <<>>, got.reads, "none", got.panic))
    /\ UNCHANGED <<protoVars, trip, dispatch, raced>>

\* A handler of the request calls CurrentUserP(w, r).
CallCurrentUserP(outcome) ==
    /\ chain.open
    /\ Len(chain.calls) < MaxCalls
    /\ LET got == CurrentUserP(chain.rq, outcome)
       IN  chain' = Chained(chain.rq, CacheCall("CurrentUserP", got.user, <<>>, "nil",
                                 got.loads, CurrentUser(chain.rq, outcome).reads,
                                 IF got.loads = <<>> THEN "none" ELSE outcome,
                                 got.panic))
    /\ UNCHANGED <<protoVars, trip, dispatch, raced>>

\* A handler of the request calls LoadCurrentUserIDP(w, &r).
CallLoadCurrentUserIDP ==
    /\ chain.open
    /\ Len(chain.calls) < MaxCalls
    /\ LET got == LoadCurrentUserIDP(chain.rq)
       IN  chain' = Chained(got.rq, CacheCall("LoadCurrentUserIDP", Nil, got.pid, "nil",
                                             <<>>, got.reads, "none", got.panic))
    /\ UNCHANGED <<protoVars, trip, dispatch, raced>>

\* A handler of the request calls LoadCurrentUserP(w, &r).
CallLoadCurrentUserP(outcome) ==
    /\ chain.open
    /\ Len(chain.calls) < MaxCalls
    /\ LET got == LoadCurrentUserP(chain.rq, outcome)
       IN  chain' = Chained(got.rq, CacheCall("LoadCurrentUserP", got.user, <<>>, "nil",
                                 got.loads, got.reads,
                                 IF got.loads = <<>> THEN "none" ELSE outcome,
                                 got.panic))
    /\ UNCHANGED <<protoVars, trip, dispatch, raced>>

\* The pids of the token round trip: every string of 1..MaxPidLen of the
\* characters 'a', ';' and '='.
RECURSIVE Strings(_)
Strings(n) ==
    IF n = 0 THEN {<<>>}
    ELSE {<<c>> \o t : c \in {97, Semicolon, PadChar}, t \in Strings(n - 1)}

TripPids == UNION {Strings(n) : n \in 1..MaxPidLen}

NoTrip ==
    [stage |-> "none", pid |-> <<>>, hash |-> Nil, cookie |-> Nil,
     asked |-> [stage |-> "none", pid |-> <<>>, hash |-> Nil]]

\* GenerateToken(pid) with the k-th nonce; the hash is stored under pid and
\* the token is put in the remember cookie (RememberAfterAuth, lines 55-65).
Issue(pid, k) ==
    /\ trip.stage = "none"
    /\ LET gen == GenerateToken(pid, Nonce(k))
       IN  trip' = [NoTrip EXCEPT !.stage = "issued", !.pid = pid,
                                  !.hash = Some(gen.hash), !.cookie = Some(gen.token)]
    /\ UNCHANGED <<protoVars, chain, dispatch, raced>>

\* Authenticate on the cookie, up to the pid and hash it asks the storage
\* for (lines 139-162).
Present ==
    /\ trip.stage = "issued"
    /\ trip' = [trip EXCEPT !.stage = "presented", !.asked = ParseCookie(trip.cookie)]
    /\ UNCHANGED <<protoVars, chain, dispatch, raced>>

\* The next token.
Forget ==
    /\ trip.stage = "presented"
    /\ trip' = NoTrip
    /\ UNCHANGED <<protoVars, chain, dispatch, raced>>

Init ==
    /\ dispatch = NoDispatch
    /\ raced = {}
    /\ chain = NoChain
    /\ trip = NoTrip
    /\ tokens = {}
    /\ nonces = 0
    /\ issued = {}
    /\ pc = [r \in Reqs |-> "idle"]
    /\ inflight = [r \in Reqs |-> Nil]
    /\ last = NoCall
    /\ used = {}
    /\ twice = {}

vars == <<tokens, nonces, issued, pc, inflight, last, used, twice, chain, trip, dispatch, raced>>

\* Requests served concurrently: anonymous requests through Middleware, and
\* the event handlers for signed-in users who asked to be remembered.
Next ==
    \/ \E r \in Reqs, ck \in Cookies : MiddlewareEnter(r, ck, <<Nil, Nil>>)
    \/ \E r \in Reqs, fault \in {"none", "use"} : AuthenticateUse(r, fault)
    \/ \E r \in Reqs, fault \in {"none", "rand", "add"} : AuthenticateRotate(r, fault)
    \/ \E rq \in FlowRequests : RememberAfterAuth(rq, FALSE, <<"ok", "none">>)
    \/ \E rq \in FlowRequests : AfterPasswordReset(rq, FALSE, <<"ok", "none">>)
    \/ Respond

Spec == Init /\ [][Next]_vars

\* Requests through Middleware one at a time, with every context.
SeqNext ==
    \/ \E ck \in Cookies, cx \in GateContexts : MiddlewareEnter(1, ck, cx)
    \/ \E fault \in {"none", "use"} : AuthenticateUse(1, fault)
    \/ \E fault \in {"none", "rand", "add"} : AuthenticateRotate(1, fault)
    \/ \E rq \in FlowRequests : RememberAfterAuth(rq, FALSE, <<"ok", "none">>)
    \/ Respond

SeqSpec == Init /\ [][SeqNext]_vars

\* The event handlers one at a time, with every request and every fault.
HookNext ==
    \/ \E rq \in HookRequests, handled \in BOOLEAN, env \in HookEnvs :
          RememberAfterAuth(rq, handled, env)
    \/ \E rq \in HookRequests, handled \in BOOLEAN, env \in HookEnvs :
          AfterPasswordReset(rq, handled, env)
    \/ Respond

HookSpec == Init /\ [][HookNext]_vars

\* One request handed through a chain of identity-cache calls.
CacheNext ==
    \/ \E rq \in CacheRequests : NewRequest(rq)
    \/ \E outcome \in LoadOutcomes : CallLoadCurrentUser(outcome)
    \/ CallLoadCurrentUserID

CacheSpec == Init /\ [][CacheNext]_vars

\* One request handed through the identity-cache calls and their panicking
\* variants.
PanicNext ==
    \/ \E rq \in CacheRequests : NewRequest(rq)
    \/ \E outcome \in LoadOutcomes : CallLoadCurrentUser(outcome)
    \/ CallLoadCurrentUserID
    \/ CallCurrentUserIDP
    \/ \E outcome \in LoadOutcomes : CallCurrentUserP(outcome)
    \/ CallLoadCurrentUserIDP
    \/ \E outcome \in LoadOutcomes : CallLoadCurrentUserP(outcome)

PanicSpec == Init /\ [][PanicNext]_vars

\* One request resolved by handlers that attach what they find and handlers
\* that do not.
ResolveNext ==
    \/ \E rq \in CacheRequests : NewRequest(rq)
    \/ CallCurrentUserID
    \/ \E outcome \in LoadOutcomes : CallCurrentUser(outcome)
    \/ CallLoadCurrentUserID
    \/ \E outcome \in LoadOutcomes : CallLoadCurrentUser(outcome)

ResolveSpec == Init /\ [][ResolveNext]_vars

\* Modules subscribe their handlers and events are dispatched.
EventNext ==
    \/ \E e \in EventNames, h \in OtherHandlers : Subscribe(e, h)
    \/ InitModule
    \/ \E e \in EventNames : FireAfter(e)
    \/ \E handled \in BOOLEAN, err \in {"nil", "handler failed"} :
          CallHandler(handled, err)
    \/ ReturnFire

EventSpec == Init /\ [][EventNext]_vars

\* Tokens issued and presented, one at a time.
TokenNext ==
    \/ \E pid \in TripPids, k \in 1..MaxNonces : Issue(pid, k)
    \/ Present
    \/ Forget

TokenSpec == Init /\ [][TokenNext]_vars

(***************************************************************************)
(* Properties.  They are stated on the call that has just returned (last), *)
(* the stored tokens and the requests in flight.                           *)
(***************************************************************************)
\* The <<pid, hash>> a remember cookie stands for: the pid before the first
\* ';' of the decoded cookie and the hash of all of it.
CookiePair(cookie) ==
    LET raw == URLDecodeString(The(cookie)).bytes
        i == CHOOSE j \in 1..Len(raw) :
                raw[j] = Semicolon /\ \A k \in 1..(j - 1) : raw[k] # Semicolon
    IN  <<SubSeq(raw, 1, i - 1), [b64std |-> [sha512 |-> raw]]>>

WellFormed(cookie) ==
    /\ cookie # Nil
    /\ ~URLDecodeString(The(cookie)).err
    /\ \E j \in 1..Len(URLDecodeString(The(cookie)).bytes) :
          URLDecodeString(The(cookie)).bytes[j] = Semicolon

DelOp == [op |-> "del", value |-> Nil]
PutOps == {i \in 1..Len(last.cookieOps) : last.cookieOps[i].op = "put"}
AddCalls == {i \in 1..Len(last.calls) : last.calls[i].fn = "AddRememberToken"}

\* Authenticate ran in the call that returned.
AuthenticateReturned == last.op = "Middleware" /\ last.from # "gate"

\* It authenticated the request: the session entries are written.
Authenticated == AuthenticateReturned /\ last.sessionPuts # <<>>

\* It left everything as it was, but for deleting the remember cookie.
OnlyCookieDeleted ==
    /\ last.err = "nil"
    /\ last.cookieOps = <<DelOp>>
    /\ last.sessionPuts = <<>>
    /\ AddCalls = {}
    /\ tokens = last.pre

\* C1: a stored remember token authenticates at most once: no <<pid, hash>>
\* is consumed a second time, no two requests are past the storage's consume
\* with the same cookie, and a call that presents a cookie whose token was
\* already consumed, and gets the storage's answer, is told not-found: it
\* returns nil, deletes the cookie, writes no session entry and stores no
\* token.
C1_SingleUse ==
    /\ twice = {}
    /\ \A r1, r2 \in Reqs :
          pc[r1] = "add" /\ pc[r2] = "add" /\ inflight[r1] = inflight[r2] => r1 = r2
    /\ (/\ AuthenticateReturned
        /\ last.from = "use"
        /\ last.fault = "none"
        /\ CookiePair(last.cookie) \in used)
       => OnlyCookieDeleted

\* A consumed token's cookie was presented again, and the storage answered.
C1_Witness ==
    /\ AuthenticateReturned
    /\ last.from = "use"
    /\ last.fault = "none"
    /\ CookiePair(last.cookie) \in used
    /\ last.cookie \subseteq issued

\* Authenticate ran to its end with no fault of storage or of the random
\* source.
Rotated == AuthenticateReturned /\ last.from = "add" /\ last.fault = "none"

\* C2: after Authenticate succeeds on a cookie carrying a stored token for
\* pid P, the presented hash is not in P's stored set, and the call added
\* exactly one hash to the store, under P, new and different from the
\* presented one.
C2_Rotation ==
    Rotated =>
        LET P == CookiePair(last.cookie)[1]
            h == CookiePair(last.cookie)[2]
        IN  /\ h \notin TokensOf(tokens, P)
            /\ \E n \in TokensOf(tokens, P) :
                  /\ n # h
                  /\ n \notin TokensOf(last.pre, P)
                  /\ tokens = last.pre \cup {<<P, n>>}

\* A rotation that left another token of the same pid in place.
C2_Witness ==
    /\ Rotated
    /\ Cardinality(TokensOf(tokens, CookiePair(last.cookie)[1])) >= 2

\* C4: a remember cookie that does not decode, that decodes to bytes
\* without ';', or whose <<pid, hash>> the storage reports as not found,
\* makes Authenticate return nil and delete the cookie, and nothing else;
\* with no remember cookie it returns nil and changes nothing.
C4_UnusableCookies ==
    AuthenticateReturned =>
        /\ last.cookie = Nil =>
              /\ last.err = "nil"
              /\ last.cookieOps = <<>> /\ last.sessionPuts = <<>>
              /\ last.calls = <<>> /\ tokens = last.pre
        /\ (last.cookie # Nil /\ ~WellFormed(last.cookie)) =>
              OnlyCookieDeleted /\ last.calls = <<>>
        /\ (/\ WellFormed(last.cookie)
            /\ last.from = "use"
            /\ last.fault = "none"
            /\ CookiePair(last.cookie) \notin last.pre) =>
              OnlyCookieDeleted

\* A well-formed cookie that was never issued met the storage.
C4_Witness ==
    /\ AuthenticateReturned
    /\ last.cookie = Some(URLEncodeToString(<<97, Semicolon, 120>>))
    /\ last.from = "use"
    /\ last.fault = "none"

\* C5: when UseRememberToken fails with another error than not-found, or
\* GenerateToken fails, or AddRememberToken fails, Authenticate returns an
\* error, writes no session entry and puts no remember cookie.
C5_FailClosed ==
    (AuthenticateReturned /\ last.fault # "none") =>
        /\ last.err # "nil"
        /\ last.sessionPuts = <<>>
        /\ PutOps = {}

\* AddRememberToken failed after the presented token was consumed.
C5_Witness ==
    /\ AuthenticateReturned
    /\ last.fault = "add"
    /\ CookiePair(last.cookie) \notin tokens
    /\ CookiePair(last.cookie) \in used

\* C6: of the requests that run Authenticate with the same cookie at the
\* same time, at most one passes the storage's consume; once one has
\* authenticated no other is past it; and every other one that gets the
\* storage's answer is told not-found: it returns nil, deletes its cookie,
\* writes no session entry and stores no token.
C6_SingleWinner ==
    /\ \A r1, r2 \in Reqs :
          (r1 # r2 /\ inflight[r1] # Nil /\ inflight[r1] = inflight[r2])
              => ~(pc[r1] = "add" /\ pc[r2] = "add")
    /\ Authenticated =>
          \A r \in Reqs : inflight[r] = last.cookie => pc[r] = "use"
    /\ (/\ AuthenticateReturned
        /\ last.from = "use"
        /\ last.fault = "none"
        /\ \E r \in Reqs : inflight[r] = last.cookie /\ pc[r] = "add")
       => OnlyCookieDeleted

\* A request lost the race while the winner is still before its
\* AddRememberToken.
C6_Witness ==
    /\ AuthenticateReturned
    /\ last.from = "use"
    /\ last.fault = "none"
    /\ \E r \in Reqs : inflight[r] = last.cookie /\ pc[r] = "add"

\* The pid of a request's current user: that of the cached user, else the
\* cached pid, else the pid in the session.
RequestPid ==
    IF last.ctxUser # Nil THEN The(last.ctxUser).pid
    ELSE IF last.ctxPID # Nil THEN The(last.ctxPID)
    ELSE last.sessPID

\* C3: when AfterPasswordReset runs for a request whose current user is pid
\* P and the storage's deletion succeeds, no token is stored for P
\* afterwards, however many were, the remember cookie is deleted, and the
\* handler returns (false, nil).
C3_ResetRevokes ==
    (last.op = "AfterPasswordReset" /\ last.from = "end" /\ last.fault = "none") =>
        /\ TokensOf(tokens, RequestPid) = {}
        /\ last.cookieOps = <<DelOp>>
        /\ last.panic = "nil"
        /\ last.handled = FALSE
        /\ last.err = "nil"

\* A reset that revoked two tokens of a pid cached in the context while the
\* session names another pid.
C3_Witness ==
    /\ last.op = "AfterPasswordReset" /\ last.from = "end" /\ last.fault = "none"
    /\ last.ctxPID # Nil /\ last.ctxUser = Nil /\ last.sessPID # The(last.ctxPID)
    /\ Cardinality(TokensOf(last.pre, RequestPid)) >= 2

\* C7: Middleware calls Authenticate exactly when the request's context has
\* neither a pid nor a user, and it calls next exactly once, last, whatever
\* Authenticate returned.
C7_MiddlewareGating ==
    last.op = "Middleware" =>
        /\ (\E i \in 1..Len(last.events) : last.events[i] = "Authenticate")
              <=> (last.ctxPID = Nil /\ last.ctxUser = Nil)
        /\ Cardinality({i \in 1..Len(last.events) : last.events[i] = "next"}) = 1
        /\ last.events[Len(last.events)] = "next"

\* Authenticate returned an error and next was called after it.
C7_Witness ==
    /\ last.op = "Middleware"
    /\ last.err # "nil"
    /\ last.events = <<"Authenticate", "next">>

\* The remember cookie the call put is the token of the one hash it stored.
StoredOneFor(P) ==
    \E n \in TokensOf(tokens, P) :
        /\ n \notin TokensOf(last.pre, P)
        /\ tokens = last.pre \cup {<<P, n>>}
        /\ Len(last.cookieOps) = 1
        /\ last.cookieOps[1].op = "put"
        /\ WellFormed(last.cookieOps[1].value)
        /\ CookiePair(last.cookieOps[1].value)[2] = n

StoredNothing == tokens = last.pre /\ last.cookieOps = <<>>

\* C8 as claimed: with the flag absent or false RememberAfterAuth stores
\* nothing, writes no cookie and returns (false, nil); with any other flag
\* it stores exactly one new hash for the current user's pid and writes the
\* matching token to the remember cookie; the returned handled is false.
C8_AsClaimed ==
    last.op = "RememberAfterAuth" =>
        /\ last.handled = FALSE
        /\ IF last.rm \in {"nil", "bool:false"}
           THEN StoredNothing /\ last.err = "nil" /\ last.panic = "nil"
           ELSE StoredOneFor(RequestPid)

\* C8: with the flag absent or false RememberAfterAuth stores nothing,
\* writes no cookie and returns (false, nil).  With any other flag: when
\* the current user resolves and neither GenerateToken nor AddRememberToken
\* fails, it stores exactly one new hash for the current user's pid, writes
\* the matching token to the remember cookie and returns (false, nil); when
\* one of the two fails it returns (false, that error) and has stored and
\* written nothing; when no current user resolves, CurrentUserP panics and
\* nothing is stored or written.  Whenever it returns, handled is false.
C8_OptIn ==
    last.op = "RememberAfterAuth" =>
        /\ last.handled = FALSE
        /\ IF last.rm \in {"nil", "bool:false"}
           THEN StoredNothing /\ last.err = "nil" /\ last.panic = "nil"
           ELSE CASE last.from = "end" ->
                       /\ StoredOneFor(RequestPid)
                       /\ last.err = "nil" /\ last.panic = "nil"
                  [] last.from \in {"rand", "add"} ->
                       /\ StoredNothing
                       /\ last.err # "nil" /\ last.panic = "nil"
                       /\ last.fault = last.from
                  [] OTHER ->
                       /\ StoredNothing
                       /\ last.panic # "nil"
                       /\ last.from = "user"

\* A flag that is no boolean, handled passed in as true: a token is stored.
C8_Witness ==
    /\ last.op = "RememberAfterAuth"
    /\ last.rm = "string:yes"
    /\ last.handledIn = TRUE
    /\ last.from = "end"
    /\ StoredOneFor(RequestPid)

\* The calls of the chain that are LoadCurrentUser, those that performed a
\* storage Load, and those that read the session.
UserCalls == {i \in 1..Len(chain.calls) : chain.calls[i].fn = "LoadCurrentUser"}
LoadingCalls == {i \in 1..Len(chain.calls) : chain.calls[i].loads # <<>>}
ReadingCalls == {i \in 1..Len(chain.calls) : chain.calls[i].reads > 0}

\* The request arrived with a pid in its session and no user in its context.
AuthenticatedSession ==
    chain.open /\ chain.rq0.sessPID # <<>> /\ chain.rq0.ctxUser = Nil

\* C9 as claimed: for an authenticated session, of the LoadCurrentUser calls
\* chained on one request the first performs the storage Load and no other
\* call does, every later one returns the same user as the first, and the
\* session is read at most once.
C9_AsClaimed ==
    AuthenticatedSession =>
        /\ UserCalls # {} =>
              LET f == CHOOSE i \in UserCalls : \A j \in UserCalls : i <= j
              IN  /\ LoadingCalls = {f}
                  /\ \A i \in UserCalls : chain.calls[i].user = chain.calls[f].user
        /\ Cardinality(ReadingCalls) <= 1

\* C9: for an authenticated session, a LoadCurrentUser call chained on the
\* request performs one storage Load as long as no earlier LoadCurrentUser
\* call of the chain has succeeded (a failed Load is not cached); once one
\* has succeeded every later call returns that same user with no error, no
\* storage Load and no session read, so at most one Load succeeds; and the
\* session is read at most once.  With no pid in session or context every
\* call reads the session again, and none loads.
C9_Memoization ==
    /\ AuthenticatedSession =>
          /\ \A i \in UserCalls :
                LET ok == {j \in UserCalls : j < i /\ chain.calls[j].err = "nil"}
                IN  IF ok = {}
                    THEN Len(chain.calls[i].loads) = 1
                    ELSE /\ chain.calls[i].loads = <<>>
                         /\ chain.calls[i].reads = 0
                         /\ chain.calls[i].err = "nil"
                         /\ chain.calls[i].user # Nil
                         /\ \A j \in ok : chain.calls[i].user = chain.calls[j].user
          /\ Cardinality({i \in LoadingCalls : chain.calls[i].err = "nil"}) <= 1
          /\ Cardinality(ReadingCalls) <= 1
    /\ (/\ chain.open
        /\ chain.rq0.sessPID = <<>>
        /\ chain.rq0.ctxPID = Nil
        /\ chain.rq0.ctxUser = Nil) =>
          /\ LoadingCalls = {}
          /\ ReadingCalls = 1..Len(chain.calls)

\* Three chained LoadCurrentUser calls: a Load that fails, a Load that
\* succeeds, a cache hit.
C9_Witness ==
    /\ AuthenticatedSession
    /\ UserCalls = {1, 2, 3}
    /\ chain.calls[1].err # "nil"
    /\ chain.calls[2].err = "nil" /\ chain.calls[2].loads # <<>>
    /\ chain.calls[3].loads = <<>> /\ chain.calls[3].user = chain.calls[2].user

\* C10: for every pid and every nonce, when GenerateToken(pid) returned
\* (hash, token) and hash is stored under pid, Authenticate on token as the
\* cookie asks the storage for exactly that (pid, hash): the pid before the
\* first ';' of the decoded token is the issuing pid, and the hash of the
\* whole decoded token is the stored hash.
C10_RoundTrip ==
    trip.stage = "presented" =>
        /\ trip.asked.stage = "lookup"
        /\ trip.asked.pid = trip.pid
        /\ trip.asked.hash = trip.hash

\* The request arrived with no pid and no user in its context and no pid in
\* its session.
Anonymous ==
    /\ chain.open
    /\ chain.rq0.ctxPID = Nil
    /\ chain.rq0.ctxUser = Nil
    /\ chain.rq0.sessPID = <<>>

\* C11: for a request with no pid in context or session, every
\* LoadCurrentUserID call returns ("", nil) and every LoadCurrentUser call
\* returns (nil, nil), none performs a storage Load, and the request is
\* left as it arrived; and a LoadCurrentUser call whose storage Load fails
\* returns a non-nil error and no user, and leaves no user in the context.
C11_AnonymousNoError ==
    /\ Anonymous =>
          /\ \A i \in 1..Len(chain.calls) :
                /\ chain.calls[i].err = "nil"
                /\ chain.calls[i].user = Nil
                /\ chain.calls[i].pid = <<>>
                /\ chain.calls[i].loads = <<>>
          /\ chain.rq = chain.rq0
    /\ \A i \in 1..Len(chain.calls) :
          chain.calls[i].answer \in {"ErrUserNotFound", "load failed"} =>
              /\ chain.calls[i].err = chain.calls[i].answer
              /\ chain.calls[i].user = Nil
              /\ (i = Len(chain.calls) => chain.rq.ctxUser = Nil)

\* An anonymous request went through both calls.
C11_Witness ==
    /\ Anonymous
    /\ \E i, j \in 1..Len(chain.calls) :
          /\ chain.calls[i].fn = "LoadCurrentUser"
          /\ chain.calls[j].fn = "LoadCurrentUserID"

\* The hashes of the raw tokens of a pid (pid, ';', nonce), and the raw
\* tokens behind the cookies issued so far.
IssuedHashes(pid) ==
    {StdEncodeToString(Sum512(pid \o <<Semicolon>> \o Nonce(k))) : k \in 1..MaxNonces}
RawTokens == {URLDecodeString(c).bytes : c \in issued}

\* C12: every value a call stored, and every value passed to
\* AddRememberToken, is the hash of a raw token; the value passed to
\* UseRememberToken is the hash of the decoded cookie; a remember cookie
\* that is put holds an issued token; and no session entry and no log line
\* holds a raw token or its cookie encoding.
C12_RawNeverPersisted ==
    /\ last.op # "none" =>
          \A t \in tokens \ last.pre : t[2] \in IssuedHashes(t[1])
    /\ \A i \in 1..Len(last.calls) :
          /\ last.calls[i].fn = "AddRememberToken" =>
                /\ last.calls[i].hash # Nil
                /\ The(last.calls[i].hash) \in IssuedHashes(last.calls[i].pid)
          /\ last.calls[i].fn = "UseRememberToken" =>
                last.calls[i].hash =
                    Some(StdEncodeToString(Sum512(URLDecodeString(The(last.cookie)).bytes)))
    /\ \A i \in PutOps : last.cookieOps[i].value \subseteq issued
    /\ \A i \in 1..Len(last.sessionPuts) :
          last.sessionPuts[i].value \notin (issued \cup RawTokens)
    /\ \A i \in 1..Len(last.logs) :
          last.logs[i].pid \cap (issued \cup RawTokens) = {}

\* A rotation: a hash used, a hash added, a token put in the cookie, the
\* session written.
C12_Witness ==
    /\ Authenticated
    /\ PutOps # {}
    /\ AddCalls # {}
    /\ Len(last.sessionPuts) = 2

\* What the recoverable variant of a panicking call returns on the same
\* request with the same answer of storage: value, error, whether the value
\* is empty, the request afterwards, the loads.
Recoverable(fn, rq, outcome) ==
    CASE fn = "CurrentUserIDP" ->
            LET g == CurrentUserID(rq)
            IN  [user |-> Nil, pid |-> g.pid, err |-> g.err, empty |-> Len(g.pid) = 0,
                 rq |-> rq, loads |-> <<>>]
      [] fn = "CurrentUserP" ->
            LET g == CurrentUser(rq, outcome)
            IN  [user |-> g.user, pid |-> <<>>, err |-> g.err, empty |-> g.user = Nil,
                 rq |-> rq, loads |-> g.loads]
      [] fn = "LoadCurrentUserIDP" ->
            LET g == LoadCurrentUserID(rq)
            IN  [user |-> Nil, pid |-> g.pid, err |-> g.err, empty |-> Len(g.pid) = 0,
                 rq |-> g.rq, loads |-> <<>>]
      [] OTHER ->
            LET g == LoadCurrentUser(rq, outcome)
            IN  [user |-> g.user, pid |-> <<>>, err |-> g.err, empty |-> g.user = Nil,
                 rq |-> g.rq, loads |-> g.loads]

PanickingCalls ==
    {"CurrentUserIDP", "CurrentUserP", "LoadCurrentUserIDP", "LoadCurrentUserP"}

\* C13: a call of CurrentUserIDP, CurrentUserP, LoadCurrentUserIDP or
\* LoadCurrentUserP panics exactly when its recoverable variant, on the
\* same request and the same answer of storage, returns an error or an
\* empty pid / nil user, and then with that error (ErrUserNotFound for an
\* empty value); otherwise it returns the same value; and it performs the
\* same loads and leaves the request rebound the same way.
C13_PanickingAgree ==
    [][(/\ Len(chain'.calls) = Len(chain.calls) + 1
        /\ chain'.calls[Len(chain'.calls)].fn \in PanickingCalls)
       => LET c == chain'.calls[Len(chain'.calls)]
              t == Recoverable(c.fn, chain.rq,
                               IF c.answer = "none" THEN "ok" ELSE c.answer)
          IN  /\ (c.panic # "nil") <=> (t.err # "nil" \/ t.empty)
              /\ c.panic # "nil" =>
                    c.panic = (IF t.err # "nil" THEN t.err ELSE "ErrUserNotFound")
              /\ c.panic = "nil" => (c.user = t.user /\ c.pid = t.pid)
              /\ c.loads = t.loads
              /\ chain'.rq = t.rq]_vars

\* LoadCurrentUserP returned a user and rebound the request; before it a
\* panicking call on the same request had returned too.
C13_Witness ==
    /\ Len(chain.calls) = 2
    /\ chain.calls[1].fn = "CurrentUserIDP" /\ chain.calls[1].panic = "nil"
    /\ chain.calls[2].fn = "LoadCurrentUserP" /\ chain.calls[2].panic = "nil"
    /\ chain.calls[2].user # Nil
    /\ chain.rq.ctxUser = chain.calls[2].user
    /\ chain.rq0.ctxUser = Nil

\* The names of the handlers a dispatch has run, in order.
RanNames == [i \in 1..Len(dispatch.fire.ran) |-> dispatch.fire.ran[i].h]

\* C14: the handlers a dispatch has run are the first of the event's
\* subscription list, in that order; a handler runs only if every handler
\* before it returned no error; an error is the dispatch's error and ends
\* it; and the remember module's handlers are subscribed once each, to the
\* After phase of the authentication and the password-reset event, so they
\* run only for that event and only after all earlier-subscribed handlers
\* returned no error.
C14_DispatchOrder ==
    /\ dispatch.fire.event # "none" =>
          LET f == dispatch.fire
              subs == dispatch.after[f.event]
          IN  /\ Len(f.ran) <= Len(subs)
              /\ RanNames = SubSeq(subs, 1, Len(f.ran))
              /\ f.at = Len(f.ran) + 1
              /\ \A i \in 1..(Len(f.ran) - 1) : f.ran[i].err = "nil"
              /\ f.err = (IF f.ran = <<>> THEN "nil" ELSE f.ran[Len(f.ran)].err)
              /\ \A i \in 1..Len(f.ran) :
                    /\ f.ran[i].h = "RememberAfterAuth" => f.event = "EventAuth"
                    /\ f.ran[i].h = "AfterPasswordReset" => f.event = "EventPasswordReset"
    /\ dispatch.inited =>
          /\ Cardinality({i \in 1..Len(dispatch.after["EventAuth"]) :
                 dispatch.after["EventAuth"][i] = "RememberAfterAuth"}) = 1
          /\ Cardinality({i \in 1..Len(dispatch.after["EventPasswordReset"]) :
                 dispatch.after["EventPasswordReset"][i] = "AfterPasswordReset"}) = 1

\* A, B, then the remember module subscribed to the authentication event;
\* B returned an error and RememberAfterAuth is not run.
C14_Witness ==
    /\ dispatch.fire.event = "EventAuth"
    /\ dispatch.after["EventAuth"] = <<"A", "B", "RememberAfterAuth">>
    /\ Len(dispatch.fire.ran) = 2
    /\ dispatch.fire.ran[1].err = "nil"
    /\ dispatch.fire.err # "nil"

\* C15: when an Authenticate call that presented a token of pid P before a
\* password reset of P finishes after that reset, and the reset left no
\* token of P in storage, no token of P is in storage afterwards either.
C15_ResetVersusRotation ==
    [][\A r \in Reqs :
          (/\ r \in raced
           /\ pc[r] = "add"
           /\ pc'[r] = "idle"
           /\ TokensOf(tokens, ParseCookie(inflight[r]).pid) = {})
          => TokensOf(tokens', ParseCookie(inflight[r]).pid) = {}]_vars

\* What Authenticate writes to the session for pid P.
SessionMarks(P) ==
    <<[key |-> "SessionKey", value |-> P],
      [key |-> "SessionHalfAuthKey", value |-> TrueString]>>

\* C16: a Middleware call writes session entries only as the pair (pid
\* entry P, half-authenticated entry "true"), where P is the pid prefix of
\* the cookie it was presented, and only when in that same call the storage
\* consumed the cookie's hash, which was stored under P, and the replacement
\* token's hash was stored under P; a call passes the consume only by the
\* storage removing the presented hash from P's set.
C16_SessionOnlyByConsumed ==
    [][/\ \A r \in Reqs :
             pc[r] = "use" /\ pc'[r] = "add" =>
                /\ CookiePair(inflight[r]) \in tokens
                /\ tokens' = tokens \ {CookiePair(inflight[r])}
       /\ (last' # last /\ last'.op = "Middleware" /\ last'.sessionPuts # <<>>) =>
             \E r \in Reqs :
                /\ pc[r] = "add" /\ pc'[r] = "idle"
                /\ last'.cookie = inflight[r]
                /\ LET P == CookiePair(inflight[r])[1]
                       h == CookiePair(inflight[r])[2]
                   IN  /\ last'.sessionPuts = SessionMarks(P)
                       /\ last'.err = "nil"
                       /\ Len(last'.calls) = 2
                       /\ last'.calls[1] = StorerCall("UseRememberToken", P, Some(h))
                       /\ last'.calls[2].fn = "AddRememberToken"
                       /\ last'.calls[2].pid = P
                       /\ last'.calls[2].hash \subseteq TokensOf(tokens', P)
                       /\ last'.calls[2].hash # {}
                       /\ <<P, h>> \in used
      ]_vars

\* A call marked the session for "a" while a token of another pid is stored.
C16_Witness ==
    /\ Authenticated
    /\ last.sessionPuts = SessionMarks(<<97>>)
    /\ \E t \in tokens : t[1] # <<97>>

\* The cookie is a token as GenerateToken makes it for the pid the cookie's
\* prefix names.
NamesItsPid(cookie) ==
    /\ WellFormed(cookie)
    /\ \E k \in 1..MaxNonces :
          The(cookie) = GenerateToken(CookiePair(cookie)[1], Nonce(k)).token

\* The response of the returned call deleted the remember cookie and then
\* put a new token, whose hash the call stored under the presented pid.
NewTokenLeft ==
    /\ Len(last.cookieOps) = 2
    /\ last.cookieOps[1] = DelOp
    /\ last.cookieOps[2].op = "put"
    /\ last.cookieOps[2].value \subseteq issued
    /\ NamesItsPid(last.cookieOps[2].value)
    /\ CookiePair(last.cookieOps[2].value)[1] = CookiePair(last.cookie)[1]
    /\ CookiePair(last.cookieOps[2].value) \in tokens \ last.pre

\* C17 as it is stated: whenever Authenticate returns after a successful
\* consume, the response carries the new token, whose hash was just stored.
C17_AsClaimed ==
    (AuthenticateReturned /\ last.from = "add") => NewTokenLeft

\* C17: when Authenticate returns nil after a successful consume, the
\* response deleted the old cookie and then put the new token, which names
\* the presented pid and whose hash was just stored for it; when it returns
\* an error after the consume, the response carries no cookie operation.  A
\* cookie that is an issued token naming its pid and not yet presented is
\* consumed unless the storage fails, and the call then authenticates unless
\* the random source or the storage fails.
C17_InStep ==
    /\ [](AuthenticateReturned /\ last.from = "add" =>
             IF last.err = "nil" THEN NewTokenLeft ELSE last.cookieOps = <<>>)
    /\ [][\A r \in Reqs :
             /\ (/\ pc[r] = "use"
                 /\ pc'[r] = "idle"
                 /\ inflight[r] \subseteq issued
                 /\ NamesItsPid(inflight[r])
                 /\ CookiePair(inflight[r]) \notin used)
                => last'.fault = "use"
             /\ (pc[r] = "add" /\ pc'[r] = "idle" /\ last'.fault = "none")
                => (last'.err = "nil" /\ last'.sessionPuts # <<>>)
        ]_vars

\* The cookie a rotation left was presented and rotated again: two tokens
\* were consumed and the only stored token is the one of the new cookie.
C17_Witness ==
    /\ Rotated
    /\ NewTokenLeft
    /\ Cardinality(used) >= 2
    /\ tokens = {CookiePair(last.cookieOps[2].value)}

\* The calls of the chain that do not take the request by reference.
PlainCalls ==
    {i \in 1..Len(chain.calls) : chain.calls[i].fn \in {"CurrentUserID", "CurrentUser"}}

\* The pid a call resolves on the request: the cached pid, else the
\* session's.
ResolvedPid(rq) == IF rq.ctxPID # Nil THEN The(rq.ctxPID) ELSE rq.sessPID

\* C18: a CurrentUserID or CurrentUser call leaves the request's context as
\* it was; CurrentUserID returns the cached pid when there is one, without
\* reading the session, and the session's pid otherwise; CurrentUser returns
\* a cached user without reading the session or calling Load, and with no
\* cached user and a pid it calls Load for that pid itself, every time; so a
\* chain of such calls on an authenticated session with no cached user has
\* one Load for each CurrentUser call.
C18_NonAttaching ==
    /\ [][\A c \in {chain'.calls[Len(chain'.calls)] : x \in {1} \cap DOMAIN chain'.calls} :
             (/\ chain'.calls = Append(chain.calls, c)
              /\ c.fn \in {"CurrentUserID", "CurrentUser"})
             => /\ chain'.rq = chain.rq
                /\ c.fn = "CurrentUserID" =>
                      /\ c.err = "nil"
                      /\ c.pid = ResolvedPid(chain.rq)
                      /\ c.reads = (IF chain.rq.ctxPID # Nil THEN 0 ELSE 1)
                /\ c.fn = "CurrentUser" =>
                      IF chain.rq.ctxUser # Nil
                      THEN /\ c.user = chain.rq.ctxUser
                           /\ c.err = "nil"
                           /\ c.reads = 0
                           /\ c.loads = <<>>
                      ELSE IF ResolvedPid(chain.rq) = <<>>
                      THEN c.user = Nil /\ c.err = "ErrUserNotFound" /\ c.loads = <<>>
                      ELSE /\ c.loads = <<ResolvedPid(chain.rq)>>
                           /\ c.user = Load(ResolvedPid(chain.rq), c.answer).user
                           /\ c.err = Load(ResolvedPid(chain.rq), c.answer).err
        ]_vars
    /\ [](PlainCalls = DOMAIN chain.calls =>
             /\ chain.rq = chain.rq0
             /\ (chain.rq0.ctxUser = Nil /\ ResolvedPid(chain.rq0) # <<>>) =>
                   \A i \in PlainCalls :
                      chain.calls[i].fn = "CurrentUser" =>
                         chain.calls[i].loads = <<ResolvedPid(chain.rq0)>>)

\* Three CurrentUser calls on a request with a cached pid and another pid in
\* its session: each one called Load for the cached pid.
C18_Witness ==
    /\ Len(chain.calls) = 3
    /\ chain.rq0.ctxUser = Nil
    /\ chain.rq0.ctxPID = Some(<<97>>)
    /\ chain.rq0.sessPID = <<97, Semicolon, 98>>
    /\ chain.rq = chain.rq0
    /\ \A i \in 1..3 :
          chain.calls[i].fn = "CurrentUser" /\ chain.calls[i].loads = << <<97>> >>

\* The returned call deleted no cookie, made no DelRememberTokens call and
\* left the stored tokens as they were.
NothingRevoked ==
    /\ last.cookieOps = <<>>
    /\ \A i \in 1..Len(last.calls) : last.calls[i].fn # "DelRememberTokens"
    /\ tokens = last.pre

\* C19: when AfterPasswordReset is called on a request with no cached user
\* and no pid in context or session, it returns (false, ErrUserNotFound);
\* when the Load of the request's pid fails, it returns (false, that
\* error); in both cases it deletes no cookie and does not call
\* DelRememberTokens.  When the user resolves and DelRememberTokens fails it
\* returns (false, that error), the cookie deletion is already on the
\* response and the stored tokens are as they were.
C19_ResetErrors ==
    last.op = "AfterPasswordReset" =>
        /\ last.panic = "nil"
        /\ last.handled = FALSE
        /\ (last.ctxUser = Nil /\ RequestPid = <<>>) =>
              /\ last.err = "ErrUserNotFound"
              /\ last.calls = <<>>
              /\ NothingRevoked
        /\ (/\ last.ctxUser = Nil
            /\ RequestPid # <<>>
            /\ last.fault \in LoadOutcomes \ {"ok"}) =>
              /\ last.err = last.fault
              /\ last.calls = <<StorerCall("Load", RequestPid, Nil)>>
              /\ NothingRevoked
        /\ last.fault = "del" =>
              /\ last.err = "del failed"
              /\ last.cookieOps = <<DelOp>>
              /\ last.calls[Len(last.calls)] =
                    StorerCall("DelRememberTokens", RequestPid, Nil)
              /\ tokens = last.pre
        /\ last.err # "nil" =>
              \/ last.ctxUser = Nil /\ RequestPid = <<>>
              \/ last.ctxUser = Nil /\ last.fault \in LoadOutcomes \ {"ok"}
              \/ last.fault = "del"

\* DelRememberTokens failed with two tokens of the user stored: the cookie
\* is deleted and the tokens are still there.
C19_Witness ==
    /\ last.op = "AfterPasswordReset"
    /\ last.fault = "del"
    /\ last.cookieOps = <<DelOp>>
    /\ Cardinality(TokensOf(tokens, RequestPid)) = 2

\* C20: the steps of a Middleware call change the stored tokens only as
\* follows.  Up to the storage's consume nothing changes (gate closed, no
\* cookie, malformed cookie).  The consume removes the pair the cookie
\* stands for, which was stored, and nothing else; when that pair is not
\* stored, or the storage fails, the call ends there and the store is as it
\* was.  The rotation adds one new hash under the cookie's pid and nothing
\* else, or, when it returns an error, leaves the store as it was.  So the
\* other tokens of the pid and all tokens of other pids stay.
C20_Frame ==
    [][\A r \in Reqs :
          /\ (pc[r] = "idle" /\ pc'[r] = "use") => tokens' = tokens
          /\ (/\ last' # last
              /\ last'.op = "Middleware"
              /\ last'.from \in {"gate", "enter"}) => tokens' = tokens
          /\ (pc[r] = "use" /\ pc'[r] # "use") =>
                IF pc'[r] = "add"
                THEN /\ CookiePair(inflight[r]) \in tokens
                     /\ tokens' = tokens \ {CookiePair(inflight[r])}
                ELSE tokens' = tokens
          /\ (pc[r] = "use" /\ pc'[r] # "use" /\ CookiePair(inflight[r]) \notin tokens)
                => pc'[r] = "idle"
          /\ (pc[r] = "add" /\ pc'[r] # "add") =>
                LET P == CookiePair(inflight[r])[1]
                IN  IF last'.err # "nil" THEN tokens' = tokens
                    ELSE \E n \in TokensOf(tokens', P) \ TokensOf(tokens, P) :
                            tokens' = tokens \cup {<<P, n>>}
      ]_vars

\* A call rotated the token of one pid while a token of another pid was
\* stored, and it still is.
C20_Witness ==
    /\ Rotated
    /\ \E t \in last.pre \cap tokens : t[1] # CookiePair(last.cookie)[1]

=============================================================================
